---- MODULE Spec2Model ----
(***************************************************************************)
(* python-coinpayments: the request signer (calculate_hmac, create_hmac),  *)
(* the IPN verifier (authenticate_ipn_request) and the gateway client      *)
(* (CoinPayments: _package_params, request and the operation wrappers),    *)
(* modelled from src/python_coinpayments/api.py.                           *)
(*                                                                         *)
(* Python values are tagged records: PyStr(t) a str of text t, PyInt(n)    *)
(* an int, Hex(k, m) the str that hexdigest() returns for the HMAC-SHA512  *)
(* of message m under key k (the HMAC is taken to be collision-free and    *)
(* never equal to one of the model's short texts).  A text is a sequence   *)
(* of symbols; a symbol is a run of unreserved characters ("foo", "1") or  *)
(* one reserved character (" ", "&", "=", ...).  No text of the model has  *)
(* two adjacent runs, so equal texts are equal sequences.  A dict is the   *)
(* sequence of its entries [k, v] in insertion order, keys distinct.       *)
(***************************************************************************)
EXTENDS FiniteSets, Integers, Sequences, TLC

VARIABLES client, gateway, last, ipn, threads, heap

vars == <<client, gateway, last, ipn, threads, heap>>

(* ---------------------------------------------------------------------- *)
(* Python values                                                           *)
(* ---------------------------------------------------------------------- *)
PyStr(t) == [str |-> t]

PyInt(n) == [int |-> n]

Hex(k, m) == [hmac_key |-> k, hmac_msg |-> m]

None == [none |-> TRUE]

Return(v) == [ret |-> v]

Raise(e) == [exc |-> e]

IsRaise(o) == DOMAIN o = {"exc"}

\* str(v) as urlencode applies it to a value that is not already a str
py_str(v) ==
    IF DOMAIN v = {"int"} THEN <<ToString(v.int)>>
    ELSE IF DOMAIN v = {"none"} THEN <<"None">>
    ELSE v.str

(* ---------------------------------------------------------------------- *)
(* dict                                                                    *)
(* ---------------------------------------------------------------------- *)
Keys(d) == {d[i].k : i \in 1..Len(d)}

HasKey(d, k) == \E i \in 1..Len(d) : d[i].k = k

\* d.get(k): the value, or None when k is absent
dict_get(d, k) ==
    IF HasKey(d, k) THEN d[CHOOSE i \in 1..Len(d) : d[i].k = k].v ELSE None

\* a faulty d[k] = v that adds an entry without looking for the key
dict_set_appending(d, k, v) == Append(d, [k |-> k, v |-> v])

\* a faulty d[k] = v that moves an existing key to the end of the dict
dict_set_moving_key(d, k, v) ==
    Append(SelectSeq(d, LAMBDA e : e.k # k), [k |-> k, v |-> v])

\* d.update({k: v}): an existing key keeps its position, a new key is appended
dict_set(d, k, v) ==
    IF HasKey(d, k)
    THEN LET i == CHOOSE n \in 1..Len(d) : d[n].k = k
         IN SubSeq(d, 1, i - 1) \o <<[k |-> k, v |-> v]>> \o SubSeq(d, i + 1, Len(d))
    ELSE Append(d, [k |-> k, v |-> v])

RECURSIVE dict_update(_, _)
\* d.update(e): the entries of e applied in e's order
dict_update(d, e) ==
    IF e = <<>> THEN d
    ELSE dict_update(dict_set(d, Head(e).k, Head(e).v), Tail(e))

\* d without key k (the caller's pop)
dict_pop(d, k) == SelectSeq(d, LAMBDA e : e.k # k)

(* ---------------------------------------------------------------------- *)
(* urllib.parse.urlencode                                                  *)
(* ---------------------------------------------------------------------- *)
\* quote_plus on one symbol: space becomes "+", a reserved character its
\* percent escape, a run of unreserved characters is kept
quote_sym(c) ==
    CASE c = " " -> "+"
      [] c = "&" -> "%26"
      [] c = "=" -> "%3D"
      [] c = "+" -> "%2B"
      [] c = "/" -> "%2F"
      [] c = ":" -> "%3A"
      [] c = "%" -> "%25"
      [] OTHER -> c

quote_plus(t) == [i \in 1..Len(t) |-> quote_sym(t[i])]

RECURSIVE urlencode_reversed(_)
\* a faulty urlencode that writes the entries last to first
urlencode_reversed(d) ==
    IF d = <<>> THEN <<>>
    ELSE LET pair == quote_plus(Head(d).k) \o <<"=">> \o quote_plus(py_str(Head(d).v))
         IN IF Len(d) = 1 THEN pair ELSE urlencode_reversed(Tail(d)) \o <<"&">> \o pair

RECURSIVE urlencode(_)
\* "&".join(quote_plus(k) + "=" + quote_plus(str(v)) for k, v in d.items())
urlencode(d) ==
    IF d = <<>> THEN <<>>
    ELSE LET pair == quote_plus(Head(d).k) \o <<"=">> \o quote_plus(py_str(Head(d).v))
         IN IF Len(d) = 1 THEN pair ELSE pair \o <<"&">> \o urlencode(Tail(d))

(* ---------------------------------------------------------------------- *)
(* calculate_hmac                                                          *)
(* ---------------------------------------------------------------------- *)
\* f(name=..., **params): Python raises TypeError when params has the key name
KwargsClash(params, names) == \E n \in names : HasKey(params, n)

\* calculate_hmac(secret=secret, **params)
calculate_hmac(secret, params) ==
    IF KwargsClash(params, {<<"secret">>})
    THEN Raise("TypeError")
    ELSE Return(Hex(secret, urlencode(params)))

(* ---------------------------------------------------------------------- *)
(* authenticate_ipn_request                                                *)
(* ---------------------------------------------------------------------- *)
NoMessage == "None"

Verdict(ok, msg) == Return([auth |-> ok, msg |-> msg])

authenticate_ipn_request(secret, merchant_id, http_headers, http_post, ipn_mode) ==
    LET params == http_post
        received_ipn_mode == dict_get(params, <<"ipn_mode">>)
        merchant == dict_get(params, <<"merchant">>)
        http_hmac == dict_get(http_headers, <<"HTTP_HMAC">>)
        hashed == calculate_hmac(secret, params)
    IN IF IsRaise(hashed) THEN hashed
       ELSE IF merchant = None THEN Verdict(FALSE, "No merchant ID")
       ELSE IF merchant # PyStr(merchant_id) THEN Verdict(FALSE, "Invalid merchant ID")
       ELSE IF received_ipn_mode = None THEN Verdict(FALSE, "No ipn_mode")
       ELSE IF received_ipn_mode # PyStr(ipn_mode) THEN Verdict(FALSE, "Invalid ipn_mode")
       ELSE IF http_hmac = None THEN Verdict(FALSE, "No HTTP HMAC")
       ELSE IF http_hmac # hashed.ret THEN Verdict(FALSE, "Invalid HTTP HMAC")
       ELSE Verdict(TRUE, NoMessage)

(* ---------------------------------------------------------------------- *)
(* Inputs of the IPN verifier                                              *)
(* ---------------------------------------------------------------------- *)
\* the longest received body, in fields
MaxFields == 3

Entry(k, v) == [k |-> k, v |-> v]

RECURSIVE Mappings(_, _)
\* the dicts of at most n entries drawn from E, keys distinct, in every order
Mappings(E, n) ==
    IF n = 0 THEN {<<>>}
    ELSE LET S == Mappings(E, n - 1)
         IN S \cup {Append(x[1], x[2]) : x \in {y \in S \X E : ~HasKey(y[1], y[2].k)}}

MerchantId == <<"8d683f17575a9544c6180206f52d4a9c">>

IpnSecret == <<"mosh">>

\* the fields a notification may carry
IpnEntries ==
    { Entry(<<"merchant">>, PyStr(MerchantId)),
      Entry(<<"merchant">>, PyStr(<<"wrong">>)),
      Entry(<<"ipn_mode">>, PyStr(<<"hmac">>)),
      Entry(<<"ipn_mode">>, PyStr(<<"wrong">>)),
      Entry(<<"status_text">>,
            PyStr(<<"Waiting", " ", "for", " ", "buyer", " ", "funds...">>)),
      Entry(<<"secret">>, PyStr(<<"mosh">>)) }

IpnBodies == Mappings(IpnEntries, MaxFields)

ExpectedMerchants == {MerchantId, <<"another-merchant">>}

ExpectedModes == {<<"hmac">>, <<"httpauth">>}

SenderSecrets == {IpnSecret, <<"forged">>}

\* the signature the sender puts in the header: the HMAC of the form encoding
\* of the body it signed
SenderSignature(secret, body) == Hex(secret, urlencode(body))

\* the bodies the sender may have signed when http_post is what arrives: the
\* same body, or one that differs from it in one field or in the field order
SignedBodies(http_post) ==
    {http_post}
        \cup {dict_pop(http_post, k) : k \in Keys(http_post)}
        \cup {dict_set(http_post, e.k, e.v) : e \in {x \in IpnEntries : HasKey(http_post, x.k)}}
        \cup {[i \in 1..Len(http_post) |-> http_post[Len(http_post) + 1 - i]]}

\* the header mappings that may come with http_post
IpnHeaders(http_post) ==
    {<<>>, <<Entry(<<"HTTP_HMAC">>, PyStr(<<"wrong">>))>>}
        \cup {<<Entry(<<"sthing">>, SenderSignature(IpnSecret, http_post))>>}
        \cup {<<Entry(<<"HTTP_HMAC">>, SenderSignature(s, b))>> :
                  s \in SenderSecrets, b \in SignedBodies(http_post)}

IpnIdle == [called |-> FALSE]

\* one call of authenticate_ipn_request by the host application
AuthenticateIpn ==
    /\ ~ipn.called
    /\ \E http_post \in IpnBodies, merchant_id \in ExpectedMerchants,
          ipn_mode \in ExpectedModes :
           \E http_headers \in IpnHeaders(http_post) :
               ipn' = [called |-> TRUE,
                       secret |-> IpnSecret,
                       merchant_id |-> merchant_id,
                       http_headers |-> http_headers,
                       http_post |-> http_post,
                       ipn_mode |-> ipn_mode,
                       result |-> authenticate_ipn_request(
                                      IpnSecret, merchant_id, http_headers,
                                      http_post, ipn_mode)]
    /\ UNCHANGED <<client, gateway, last, threads, heap>>

(* ---------------------------------------------------------------------- *)
(* json.loads, on the token texts the gateway may answer with              *)
(* ---------------------------------------------------------------------- *)
Quote == "\""

JsonWhitespace == {" ", "\n"}

\* the number tokens of the model's bodies and their values
JsonNumbers == [x \in {"0", "1"} |-> IF x = "0" THEN 0 ELSE 1]

PyDict(d) == [dict |-> d]

JsonFail == [ok |-> FALSE, v |-> None, next |-> 0]

JsonOk(v, next) == [ok |-> TRUE, v |-> v, next |-> next]

RECURSIVE skip_ws(_, _)
skip_ws(t, i) ==
    IF i <= Len(t) /\ t[i] \in JsonWhitespace THEN skip_ws(t, i + 1) ELSE i

\* a string literal opening at t[i]: its text runs to the next quote
parse_string(t, i) ==
    IF i <= Len(t) /\ t[i] = Quote /\ \E j \in (i + 1)..Len(t) : t[j] = Quote
    THEN LET j == CHOOSE n \in (i + 1)..Len(t) :
                      t[n] = Quote /\ \A m \in (i + 1)..(n - 1) : t[m] # Quote
         IN JsonOk(PyStr(SubSeq(t, i + 1, j - 1)), j + 1)
    ELSE JsonFail

RECURSIVE parse_value(_, _)
RECURSIVE parse_members(_, _, _)

\* the members of an object after its "{" or after a ",": acc holds those read
parse_members(t, i, acc) ==
    LET key == parse_string(t, skip_ws(t, i))
        colon == skip_ws(t, key.next)
        val == parse_value(t, skip_ws(t, colon + 1))
        after == skip_ws(t, val.next)
    IN IF ~key.ok \/ colon > Len(t) \/ t[colon] # ":" THEN JsonFail
       ELSE IF ~val.ok \/ after > Len(t) THEN JsonFail
       ELSE IF t[after] = "}"
            THEN JsonOk(PyDict(dict_set(acc, key.v.str, val.v)), after + 1)
       ELSE IF t[after] = ","
            THEN parse_members(t, after + 1, dict_set(acc, key.v.str, val.v))
       ELSE JsonFail

parse_value(t, i) ==
    IF i > Len(t) THEN JsonFail
    ELSE IF t[i] = Quote THEN parse_string(t, i)
    ELSE IF t[i] \in DOMAIN JsonNumbers THEN JsonOk(PyInt(JsonNumbers[t[i]]), i + 1)
    ELSE IF t[i] = "{"
         THEN LET j == skip_ws(t, i + 1)
              IN IF j <= Len(t) /\ t[j] = "}" THEN JsonOk(PyDict(<<>>), j + 1)
                 ELSE parse_members(t, i + 1, <<>>)
    ELSE JsonFail

\* json.loads(response_body)
json_loads(t) ==
    LET r == parse_value(t, skip_ws(t, 1))
    IN IF r.ok /\ skip_ws(t, r.next) = Len(t) + 1
       THEN Return(r.v)
       ELSE Raise("JSONDecodeError")

(* ---------------------------------------------------------------------- *)
(* CoinPayments                                                            *)
(* ---------------------------------------------------------------------- *)
ApiUrl == <<"https", ":", "/", "/", "www.coinpayments.net", "/", "api.php">>

ApiVersion == 1

\* __init__
CoinPayments(public_key, private_key, ipn_url) ==
    [url |-> ApiUrl,
     public_key |-> public_key,
     private_key |-> private_key,
     ipn_url |-> ipn_url,
     format |-> <<"json">>,
     version |-> ApiVersion]

\* a faulty _package_params that lets the caller's entries win over the
\* client's key, version and format
package_params_caller_wins(self, params) ==
    LET p == IF params = None THEN <<>> ELSE params.dict
    IN dict_update(<<Entry(<<"key">>, PyStr(self.public_key)),
                     Entry(<<"version">>, PyInt(self.version)),
                     Entry(<<"format">>, PyStr(self.format))>>, p)

\* _package_params: params is None or the caller's dict, which is updated
package_params(self, params) ==
    LET p == IF params = None THEN <<>> ELSE params.dict
    IN dict_update(p, <<Entry(<<"key">>, PyStr(self.public_key)),
                        Entry(<<"version">>, PyInt(self.version)),
                        Entry(<<"format">>, PyStr(self.format))>>)

\* a faulty create_hmac that signs with the public key
create_hmac_public_key(self, params) ==
    IF KwargsClash(params, {<<"self">>}) THEN Raise("TypeError")
    ELSE LET encoded == urlencode(params)
             sig == calculate_hmac(self.public_key, params)
         IN IF IsRaise(sig) THEN sig
            ELSE Return([encoded |-> encoded, sig |-> sig.ret])

\* create_hmac(**params): the encoded parameters and their signature
create_hmac(self, params) ==
    IF KwargsClash(params, {<<"self">>}) THEN Raise("TypeError")
    ELSE LET encoded == urlencode(params)
             sig == calculate_hmac(self.private_key, params)
         IN IF IsRaise(sig) THEN sig
            ELSE Return([encoded |-> encoded, sig |-> sig.ret])

\* what the gateway, or the network, does with a request: a 200 response, an
\* HTTP error status with the gateway's JSON error body, an HTTP error status
\* with a body that is not JSON, or no response at all
OkResponse ==
    [kind |-> "response", status |-> 200,
     body |-> <<"\n", " ", "{", Quote, "error", Quote, ":", " ", Quote, "ok", Quote,
                ",", " ", Quote, "result", Quote, ":", " ",
                "{", Quote, "status", Quote, ":", " ", "0", "}", "}">>]

ErrorResponse ==
    [kind |-> "HTTPError", status |-> 400,
     body |-> <<"{", Quote, "error", Quote, ":", Quote, "Invalid", " ", "command",
                Quote, ",", Quote, "result", Quote, ":", "{", "}", "}">>]

BadGatewayResponse ==
    [kind |-> "HTTPError", status |-> 502,
     body |-> <<"<", "html", ">", "Bad", " ", "Gateway", "<", "/", "html", ">">>]

NoConnection == [kind |-> "URLError"]

Transports == {OkResponse, ErrorResponse, BadGatewayResponse, NoConnection}

\* an outbound urllib.request.Request
Request(url, data, headers) == [full_url |-> url, data |-> data, headers |-> headers]

Exchange(sent, result) == [sent |-> sent, result |-> result]

\* a faulty exchange that lets the HTTPError of an error status propagate
urlopen_and_parse_reraising(req, transport) ==
    IF transport.kind = "URLError" THEN Raise("URLError")
    ELSE IF transport.kind = "HTTPError" THEN Raise("HTTPError")
    ELSE json_loads(transport.body)

\* urlopen(req), the except/else around it and json.loads of the body read
urlopen_and_parse(req, transport) ==
    IF transport.kind = "URLError" THEN Raise("URLError")
    ELSE json_loads(transport.body)

\* request(request_method, **params): the requests handed to urlopen and the
\* value returned or the exception raised
request(self, request_method, params, transport) ==
    IF KwargsClash(params, {<<"self">>, <<"request_method">>})
    THEN Exchange(<<>>, Raise("TypeError"))
    ELSE LET made == create_hmac(self, params)
             headers == <<Entry(<<"Hmac">>, made.ret.sig)>>
             req == IF request_method = <<"get">>
                    THEN Request(self.url, None, headers)
                    ELSE Request(self.url, PyStr(made.ret.encoded),
                                 Append(headers,
                                        Entry(<<"Content-type">>,
                                              PyStr(<<"application", "/",
                                                      "x-www-form-urlencoded">>))))
         IN IF IsRaise(made) THEN Exchange(<<>>, made)
            ELSE IF request_method \notin {<<"get">>, <<"post">>}
                 THEN Exchange(<<>>, Raise("UnboundLocalError"))
            ELSE Exchange(<<req>>, urlopen_and_parse(req, transport))

(* ---------------------------------------------------------------------- *)
(* The operation wrappers: each returns the calls of self.request it makes *)
(* ---------------------------------------------------------------------- *)
Dispatch(request_method, params) == [request_method |-> request_method, params |-> params]

\* params.update({"cmd": cmd})
with_cmd(params, cmd) == dict_update(params, <<Entry(<<"cmd">>, PyStr(<<cmd>>))>>)

\* a faulty callback injection that does not test the client's URL
with_ipn_url_always(self, params) ==
    dict_update(params, <<Entry(<<"ipn_url">>, PyStr(self.ipn_url))>>)

\* if self.ipn_url: params.update({"ipn_url": self.ipn_url})
with_ipn_url(self, params) ==
    IF self.ipn_url # <<>>
    THEN dict_update(params, <<Entry(<<"ipn_url">>, PyStr(self.ipn_url))>>)
    ELSE params

create_transaction(self, params) ==
    <<Dispatch(<<"post">>,
               with_cmd(with_ipn_url(self, package_params(self, params)),
                        "create_transaction"))>>

get_basic_info(self, params) ==
    <<Dispatch(<<"post">>, with_cmd(package_params(self, params), "get_basic_info"))>>

rates(self, params) ==
    <<Dispatch(<<"post">>, with_cmd(package_params(self, params), "rates"))>>

balances(self, params) ==
    <<Dispatch(<<"post">>, with_cmd(package_params(self, params), "balances"))>>

get_deposit_address(self, params) ==
    <<Dispatch(<<"post">>, with_cmd(package_params(self, params), "get_deposit_address"))>>

get_callback_address(self, params) ==
    <<Dispatch(<<"post">>,
               with_cmd(with_ipn_url(self, package_params(self, params)),
                        "get_callback_address"))>>

create_transfer(self, params) ==
    <<Dispatch(<<"post">>, with_cmd(package_params(self, params), "create_transfer"))>>

create_withdrawal(self, params) ==
    <<Dispatch(<<"post">>, with_cmd(package_params(self, params), "create_withdrawal"))>>

convert_coins(self, params) ==
    <<Dispatch(<<"post">>, with_cmd(package_params(self, params), "convert"))>>

get_conversion_limits(self, params) ==
    <<Dispatch(<<"post">>, with_cmd(package_params(self, params), "convert_limits"))>>

get_withdrawal_history(self, params) ==
    <<Dispatch(<<"post">>, with_cmd(package_params(self, params), "get_withdrawal_history"))>>

get_withdrawal_info(self, params) ==
    <<Dispatch(<<"post">>, with_cmd(package_params(self, params), "get_withdrawal_info"))>>

get_conversion_info(self, params) ==
    <<Dispatch(<<"post">>, with_cmd(package_params(self, params), "get_conversion_info"))>>

get_tx_info(self, params) ==
    <<Dispatch(<<"post">>, with_cmd(package_params(self, params), "get_tx_info"))>>

get_tx_info_multi(self, params) ==
    <<Dispatch(<<"post">>, with_cmd(package_params(self, params), "get_tx_info_multi"))>>

get_tx_list(self, params) ==
    <<Dispatch(<<"post">>, with_cmd(package_params(self, params), "get_tx_ids"))>>

\* the wrappers by name
Operations ==
    {"create_transaction",
     "get_basic_info",
     "rates",
     "balances",
     "get_deposit_address",
     "get_callback_address",
     "create_transfer",
     "create_withdrawal",
     "convert_coins",
     "get_conversion_limits",
     "get_withdrawal_history",
     "get_withdrawal_info",
     "get_conversion_info",
     "get_tx_info",
     "get_tx_info_multi",
     "get_tx_list"}

Invoke(op, self, params) ==
    CASE op = "create_transaction" -> create_transaction(self, params)
      [] op = "get_basic_info" -> get_basic_info(self, params)
      [] op = "rates" -> rates(self, params)
      [] op = "balances" -> balances(self, params)
      [] op = "get_deposit_address" -> get_deposit_address(self, params)
      [] op = "get_callback_address" -> get_callback_address(self, params)
      [] op = "create_transfer" -> create_transfer(self, params)
      [] op = "create_withdrawal" -> create_withdrawal(self, params)
      [] op = "convert_coins" -> convert_coins(self, params)
      [] op = "get_conversion_limits" -> get_conversion_limits(self, params)
      [] op = "get_withdrawal_history" -> get_withdrawal_history(self, params)
      [] op = "get_withdrawal_info" -> get_withdrawal_info(self, params)
      [] op = "get_conversion_info" -> get_conversion_info(self, params)
      [] op = "get_tx_info" -> get_tx_info(self, params)
      [] op = "get_tx_info_multi" -> get_tx_info_multi(self, params)
      [] op = "get_tx_list" -> get_tx_list(self, params)

(* ---------------------------------------------------------------------- *)
(* Callers of the client                                                   *)
(* ---------------------------------------------------------------------- *)
\* the calls one caller makes on the client in a run
MaxCalls == 2

\* the mappings a caller builds
CallerMappings ==
    { <<>>,
      <<Entry(<<"foo">>, PyStr(<<"bar">>))>>,
      <<Entry(<<"foo">>, PyStr(<<"bar">>)),
        Entry(<<"ipn_url">>, PyStr(<<"https", ":", "/", "/", "other.example">>))>>,
      <<Entry(<<"ipn_url">>, PyStr(<<"https", ":", "/", "/", "other.example">>)),
        Entry(<<"foo">>, PyStr(<<"bar">>))>>,
      <<Entry(<<"version">>, PyInt(2)), Entry(<<"foo">>, PyStr(<<"bar">>))>>,
      <<Entry(<<"cmd">>, PyStr(<<"evil">>)),
        Entry(<<"format">>, PyStr(<<"xml">>)),
        Entry(<<"key">>, PyStr(<<"other", " ", "key">>)),
        Entry(<<"ipn_url">>, PyStr(<<"https", ":", "/", "/", "other.example">>))>>,
      <<Entry(<<"secret">>, PyStr(<<"s">>))>>,
      <<Entry(<<"foo">>, PyStr(<<"bar">>)),
        Entry(<<"request_method">>, PyStr(<<"get">>))>> }

RequestMethods == {<<"get">>, <<"post">>, <<"POST">>}

CallbackUrls == {<<>>, <<"https", ":", "/", "/", "example.com">>}

Idle == [called |-> FALSE, n |-> 0]

\* a caller that has been returned a value may call again, up to MaxCalls
MayCallAgain == last.called /\ last.n < MaxCalls /\ ~IsRaise(last.result)

\* the record of one call on the client: what was passed (before), what the
\* caller's mapping holds when the call is over (after), the calls of
\* self.request made, the requests handed to urlopen, and the outcome.
\* repeat: it is the call before it made again, with the same input
CallRecord(op, arg, before, after, dispatched, exchange) ==
    [called |-> TRUE, n |-> last.n + 1,
     op |-> op, arg |-> arg, before |-> before, after |-> after,
     dispatched |-> dispatched, sent |-> exchange.sent, result |-> exchange.result,
     repeat |-> last.called /\ last.op = op]

\* a wrapper called with params: the dict it updates is the caller's own, so
\* after the call the caller's mapping is the one that was dispatched
CallOperation(op, arg, params) ==
    LET calls == Invoke(op, client, params)
        c == calls[1]
    IN /\ last' = CallRecord(op, arg, params,
                             IF params = None THEN None ELSE PyDict(c.params),
                             calls,
                             request(client, c.request_method, c.params, gateway))
       /\ UNCHANGED <<client, gateway, ipn, threads, heap>>

\* client.op(): params defaults to None.  A first call, or the call before
\* it made again
OperationDefault ==
    \/ /\ ~last.called
       /\ \E op \in Operations : CallOperation(op, "none", None)
    \/ /\ MayCallAgain
       /\ last.op \in Operations
       /\ last.arg = "none"
       /\ CallOperation(last.op, "none", None)

\* client.op(params) with a mapping the caller has just built: a first call,
\* or the call before it made again with an equal mapping
OperationFresh ==
    \/ /\ ~last.called
       /\ \E op \in Operations, m \in CallerMappings :
              CallOperation(op, "fresh", PyDict(m))
    \/ /\ MayCallAgain
       /\ last.op \in Operations
       /\ last.arg = "fresh"
       /\ CallOperation(last.op, "fresh", last.before)

\* client.op(params) with the very mapping object of the call before
OperationSame ==
    /\ MayCallAgain
    /\ last.after # None
    /\ \E op \in Operations : CallOperation(op, "same", last.after)

\* client.request(request_method, **params) called directly
RequestDirect ==
    /\ ~last.called
    /\ \E request_method \in RequestMethods, m \in CallerMappings :
           last' = CallRecord("request", "fresh", PyDict(m), PyDict(m),
                              <<Dispatch(request_method, m)>>,
                              request(client, request_method, m, gateway))
    /\ UNCHANGED <<client, gateway, ipn, threads, heap>>

\* client.create_hmac(**params) called directly
CreateHmacDirect ==
    /\ ~last.called
    /\ \E m \in CallerMappings :
           last' = CallRecord("create_hmac", "fresh", PyDict(m), PyDict(m), <<>>,
                              Exchange(<<>>, create_hmac(client, m)))
    /\ UNCHANGED <<client, gateway, ipn, threads, heap>>

(* ---------------------------------------------------------------------- *)
(* Threads of the host application sharing one client.  A dict is an      *)
(* object on the heap; a wrapper updates the object it was passed, one     *)
(* statement at a time, and the call of self.request copies it.           *)
(* ---------------------------------------------------------------------- *)
Threads == {"t1", "t2"}

\* the dict both threads hold a reference to
Shared == "shared"

\* the dict that _package_params creates for a thread that passed none
Local == [t \in Threads |-> IF t = "t1" THEN "local1" ELSE "local2"]

\* one dict of its own for each thread, the shared one, and the local ones
Objects == Threads \cup {Shared} \cup {Local[t] : t \in Threads}

\* what a thread passes as params: nothing, its own dict, the shared dict
References == {"none", "own", "shared"}

OwnMapping == <<Entry(<<"foo">>, PyStr(<<"bar">>))>>

SharedMappings ==
    { OwnMapping,
      <<Entry(<<"ipn_url">>, PyStr(<<"https", ":", "/", "/", "other.example">>)),
        Entry(<<"foo">>, PyStr(<<"bar">>))>> }

\* the wrappers the threads call
ThreadOperations == {"rates", "balances", "create_transaction", "get_callback_address"}

\* the wrappers with the statement `if self.ipn_url: params.update(...)`
UpdatesIpnUrl(op) == op \in {"create_transaction", "get_callback_address"}

\* the literal of the wrapper's params.update({"cmd": ...})
CommandOf(op) == dict_get(Invoke(op, client, None)[1].params, <<"cmd">>).str[1]

\* the dicts before any call: the shared one holds m, the local ones are not
\* yet created
InitialHeap(m) ==
    [o \in Objects |->
        IF o = Shared THEN m ELSE IF o \in Threads THEN OwnMapping ELSE <<>>]

\* the object a thread refers to when it passes ref
Referred(t, ref) ==
    CASE ref = "shared" -> Shared
      [] ref = "own" -> t
      [] ref = "none" -> Local[t]

ThreadsIdle == [t \in Threads |-> [pc |-> "idle"]]

Active(t) == threads[t].pc \notin {"idle", "done"}

\* the object the local variable params of thread t refers to
ObjectOf(t) == Referred(t, threads[t].ref)

\* thread t sets out on its call; overlap: another call on the same dict is
\* under way
Begin(t, op, ref, pc, overlap) ==
    [u \in Threads |->
        IF u = t
        THEN [pc |-> pc, op |-> op, ref |-> ref, overlap |-> overlap,
              before |-> IF ref = "none" THEN None
                         ELSE PyDict(heap[Referred(t, ref)])]
        ELSE IF overlap /\ Active(u) /\ threads[u].ref = "shared"
             THEN [threads[u] EXCEPT !.overlap = TRUE]
             ELSE threads[u]]

\* thread t is returned from its call
Finish(started, dispatched, exchange, after) ==
    [pc |-> "done", op |-> started.op, ref |-> started.ref,
     overlap |-> started.overlap, before |-> started.before,
     dispatched |-> dispatched, sent |-> exchange.sent,
     result |-> exchange.result, after |-> after]

\* thread t calls client.op(params)
CallWrapper(t) ==
    /\ threads[t].pc = "idle"
    /\ \E op \in ThreadOperations, ref \in References :
           threads' = Begin(t, op, ref, "package",
                            ref = "shared"
                                /\ \E u \in Threads \ {t} :
                                       Active(u) /\ threads[u].ref = "shared")
    /\ UNCHANGED <<client, gateway, last, ipn, heap>>

\* params = self._package_params(params)
Package(t) ==
    /\ threads[t].pc = "package"
    /\ heap' = [heap EXCEPT ![ObjectOf(t)] =
                   package_params(client, IF threads[t].ref = "none" THEN None
                                          ELSE PyDict(heap[ObjectOf(t)]))]
    /\ threads' = [threads EXCEPT ![t].pc =
                      IF UpdatesIpnUrl(threads[t].op) THEN "ipn_url" ELSE "cmd"]
    /\ UNCHANGED <<client, gateway, last, ipn>>

\* if self.ipn_url: params.update({"ipn_url": self.ipn_url})
UpdateIpnUrl(t) ==
    /\ threads[t].pc = "ipn_url"
    /\ heap' = [heap EXCEPT ![ObjectOf(t)] = with_ipn_url(client, heap[ObjectOf(t)])]
    /\ threads' = [threads EXCEPT ![t].pc = "cmd"]
    /\ UNCHANGED <<client, gateway, last, ipn>>

\* params.update({"cmd": ...})
UpdateCmd(t) ==
    /\ threads[t].pc = "cmd"
    /\ heap' = [heap EXCEPT ![ObjectOf(t)] =
                   with_cmd(heap[ObjectOf(t)], CommandOf(threads[t].op))]
    /\ threads' = [threads EXCEPT ![t].pc = "request"]
    /\ UNCHANGED <<client, gateway, last, ipn>>

\* return self.request("post", **params): the keyword arguments are a copy
\* of the dict as it is at the call
SendRequest(t) ==
    /\ threads[t].pc = "request"
    /\ LET kwargs == heap[ObjectOf(t)]
       IN threads' = [threads EXCEPT ![t] =
                         Finish(threads[t], <<Dispatch(<<"post">>, kwargs)>>,
                                request(client, <<"post">>, kwargs, gateway),
                                IF threads[t].ref = "none" THEN None
                                ELSE PyDict(kwargs))]
    /\ UNCHANGED <<client, gateway, last, ipn, heap>>

\* thread t calls client.request(request_method, **params)
ThreadRequest(t) ==
    /\ threads[t].pc = "idle"
    /\ \E request_method \in RequestMethods, ref \in References \ {"none"} :
           LET kwargs == heap[Referred(t, ref)]
           IN threads' = [threads EXCEPT ![t] =
                             Finish(Begin(t, "request", ref, "request", FALSE)[t],
                                    <<Dispatch(request_method, kwargs)>>,
                                    request(client, request_method, kwargs, gateway),
                                    PyDict(kwargs))]
    /\ UNCHANGED <<client, gateway, last, ipn, heap>>

\* thread t calls client.create_hmac(**params)
ThreadCreateHmac(t) ==
    /\ threads[t].pc = "idle"
    /\ \E ref \in References \ {"none"} :
           LET kwargs == heap[Referred(t, ref)]
           IN threads' = [threads EXCEPT ![t] =
                             Finish(Begin(t, "create_hmac", ref, "create_hmac", FALSE)[t],
                                    <<>>, Exchange(<<>>, create_hmac(client, kwargs)),
                                    PyDict(kwargs))]
    /\ UNCHANGED <<client, gateway, last, ipn, heap>>

(* ---------------------------------------------------------------------- *)
(* Specifications                                                          *)
(* ---------------------------------------------------------------------- *)
Init ==
    /\ client \in {CoinPayments(<<"public", " ", "key">>, <<"private", " ", "key">>, u) :
                       u \in CallbackUrls}
    /\ gateway \in Transports
    /\ last = Idle
    /\ ipn = IpnIdle
    /\ threads = ThreadsIdle
    /\ heap = InitialHeap(OwnMapping)

Next ==
    \/ OperationDefault
    \/ OperationFresh
    \/ OperationSame
    \/ RequestDirect
    \/ CreateHmacDirect

\* the gateway client and its callers
Spec == Init /\ [][Next]_vars

\* the verifier takes nothing from a client or from the gateway
IpnInit == Init /\ client.ipn_url = <<>> /\ gateway.kind = "URLError"

IpnNext == AuthenticateIpn

\* the IPN verifier, a function of its arguments alone
IpnSpec == IpnInit /\ [][IpnNext]_vars

\* one client, a gateway that answers or cannot be reached, two threads
ThreadInit ==
    /\ client \in {CoinPayments(<<"public", " ", "key">>, <<"private", " ", "key">>, u) :
                       u \in CallbackUrls}
    /\ gateway \in {OkResponse, NoConnection}
    /\ last = Idle
    /\ ipn = IpnIdle
    /\ threads = ThreadsIdle
    /\ heap \in {InitialHeap(m) : m \in SharedMappings}

ThreadNext ==
    \E t \in Threads :
        \/ CallWrapper(t)
        \/ Package(t)
        \/ UpdateIpnUrl(t)
        \/ UpdateCmd(t)
        \/ SendRequest(t)
        \/ ThreadRequest(t)
        \/ ThreadCreateHmac(t)

\* threads of one application calling one client
ThreadSpec == ThreadInit /\ [][ThreadNext]_vars

(* ---------------------------------------------------------------------- *)
(* The IPN verifier as section 4.3 states it                               *)
(* ---------------------------------------------------------------------- *)
Reasons ==
    {"No merchant ID", "Invalid merchant ID", "No ipn_mode", "Invalid ipn_mode",
     "No HTTP HMAC", "Invalid HTTP HMAC"}

\* the first check of the fixed order that the call c fails, "" when none does
FirstFailure(c) ==
    IF ~HasKey(c.http_post, <<"merchant">>) THEN "No merchant ID"
    ELSE IF dict_get(c.http_post, <<"merchant">>) # PyStr(c.merchant_id)
         THEN "Invalid merchant ID"
    ELSE IF ~HasKey(c.http_post, <<"ipn_mode">>) THEN "No ipn_mode"
    ELSE IF dict_get(c.http_post, <<"ipn_mode">>) # PyStr(c.ipn_mode)
         THEN "Invalid ipn_mode"
    ELSE IF ~HasKey(c.http_headers, <<"HTTP_HMAC">>) THEN "No HTTP HMAC"
    ELSE IF dict_get(c.http_headers, <<"HTTP_HMAC">>)
                # SenderSignature(c.secret, c.http_post)
         THEN "Invalid HTTP HMAC"
    ELSE ""

\* the bodies one field away from body: a field removed, changed or added
OneFieldAway(body) ==
    ({dict_pop(body, k) : k \in Keys(body)}
        \cup {dict_set(body, e.k, e.v) : e \in IpnEntries}) \ {body}

\* C1: whenever a call of authenticate_ipn_request fails a check, it returns
\* (False, reason) with the reason of the first check failed in the order
\* merchant absent, merchant wrong, ipn_mode absent, ipn_mode wrong, header
\* absent, header wrong, whatever else is wrong with the call.
C1_FirstFailingReason ==
    (ipn.called /\ FirstFailure(ipn) # "")
        => ipn.result = Verdict(FALSE, FirstFailure(ipn))

\* C2: a call returns (True, None) exactly when merchant and ipn_mode are the
\* expected ones and the header is the signature of the whole received body;
\* in every other case it returns (False, one of the six reasons); and an
\* accepted body with one field changed, added or removed is rejected under
\* the same header.
C2_AcceptsExactlySignedBodies ==
    ipn.called =>
        /\ (ipn.result = Verdict(TRUE, NoMessage)) <=> (FirstFailure(ipn) = "")
        /\ FirstFailure(ipn) # "" => ipn.result \in {Verdict(FALSE, r) : r \in Reasons}
        /\ ipn.result = Verdict(TRUE, NoMessage) =>
               \A b \in OneFieldAway(ipn.http_post) :
                   authenticate_ipn_request(ipn.secret, ipn.merchant_id,
                                            ipn.http_headers, b, ipn.ipn_mode)
                       \in {Verdict(FALSE, r) : r \in Reasons}

\* C3: no call of authenticate_ipn_request raises: every call returns
\* (True, None) or (False, reason), whatever fields the body has.
C3_VerificationNeverRaises ==
    ipn.called =>
        /\ ~IsRaise(ipn.result)
        /\ ipn.result \in {Verdict(TRUE, NoMessage)} \cup {Verdict(FALSE, r) : r \in Reasons}

(* ---------------------------------------------------------------------- *)
(* The gateway client as sections 4.2 and 6 state it                       *)
(* ---------------------------------------------------------------------- *)
\* the command each operation of the catalog sends
CommandName ==
    [op \in Operations |->
        CASE op = "convert_coins" -> "convert"
          [] op = "get_conversion_limits" -> "convert_limits"
          [] op = "get_tx_list" -> "get_tx_ids"
          [] OTHER -> op]

CallbackOperations == {"create_transaction", "get_callback_address"}

InjectedNames == {<<"key">>, <<"version">>, <<"format">>, <<"cmd">>}

IsOperationCall == last.called /\ last.op \in Operations

\* the mapping the caller passed, empty when it passed none
CallerDict == IF last.before = None THEN <<>> ELSE last.before.dict

FormHeaders(signature) ==
    { Entry(<<"Hmac">>, signature),
      Entry(<<"Content-type">>,
            PyStr(<<"application", "/", "x-www-form-urlencoded">>)) }

\* C4: every request that a POST dispatch hands to urlopen goes to the fixed
\* endpoint URL, carries as body the encoding of the dispatched mapping and
\* exactly the headers Content-type and Hmac, and its Hmac is the HMAC-SHA512
\* of those very body bytes under the client's private key; a dispatch makes
\* at most one request, and exactly one when it returns a value.
C4_PostRequestIsSignedBody ==
    (last.called /\ Len(last.dispatched) = 1
          /\ last.dispatched[1].request_method = <<"post">>)
        => /\ Len(last.sent) <= 1
           /\ ~IsRaise(last.result) => Len(last.sent) = 1
           /\ \A i \in 1..Len(last.sent) :
                  LET req == last.sent[i]
                  IN /\ req.full_url = ApiUrl
                     /\ req.data = PyStr(urlencode(last.dispatched[1].params))
                     /\ Len(req.headers) = 2
                     /\ {req.headers[j] : j \in 1..2}
                            = FormHeaders(Hex(client.private_key, req.data.str))

C4_Witness ==
    /\ last.called
    /\ last.op = "request"
    /\ last.dispatched[1].request_method = <<"post">>
    /\ Len(last.dispatched[1].params) = 2
    /\ Len(last.sent) = 1

\* the value the wrapper must dispatch under each injected name
InjectedValue(k) ==
    CASE k = <<"key">> -> PyStr(client.public_key)
      [] k = <<"version">> -> PyInt(1)
      [] k = <<"format">> -> PyStr(<<"json">>)
      [] k = <<"cmd">> -> PyStr(<<CommandName[last.op]>>)

\* the wrapper replaces the caller's ipn_url by the configured callback URL
ReplacesIpnUrl == last.op \in CallbackOperations /\ client.ipn_url # <<>>

DispatchesInjectedFields ==
    /\ Len(last.dispatched) = 1
    /\ last.dispatched[1].request_method = <<"post">>
    /\ \A k \in InjectedNames :
           dict_get(last.dispatched[1].params, k) = InjectedValue(k)

\* C5 as claimed: a wrapper dispatches once, with "post", the injected key,
\* version, format and cmd, and every other entry of the caller's mapping
\* unchanged.
C5_EveryOtherEntryUnchanged ==
    IsOperationCall =>
        /\ DispatchesInjectedFields
        /\ \A i \in 1..Len(CallerDict) :
               CallerDict[i].k \notin InjectedNames =>
                   dict_get(last.dispatched[1].params, CallerDict[i].k)
                       = CallerDict[i].v

\* C5 amended: a wrapper dispatches once, with "post", the injected key,
\* version, format and cmd whatever the caller supplied under those names,
\* and every other entry of the caller's mapping unchanged, except ipn_url in
\* create_transaction and get_callback_address on a client with a callback
\* URL, which is dispatched as that callback URL.
C5_EntriesUnchangedButCallbackUrl ==
    IsOperationCall =>
        /\ DispatchesInjectedFields
        /\ \A i \in 1..Len(CallerDict) :
               CallerDict[i].k \notin InjectedNames =>
                   dict_get(last.dispatched[1].params, CallerDict[i].k)
                       = IF CallerDict[i].k = <<"ipn_url">> /\ ReplacesIpnUrl
                         THEN PyStr(client.ipn_url)
                         ELSE CallerDict[i].v

C5_Witness ==
    /\ IsOperationCall
    /\ last.op = "create_transaction"
    /\ client.ipn_url # <<>>
    /\ dict_get(CallerDict, <<"cmd">>) = PyStr(<<"evil">>)
    /\ dict_get(CallerDict, <<"ipn_url">>) # PyStr(client.ipn_url)
    /\ HasKey(CallerDict, <<"ipn_url">>)
    /\ dict_get(last.dispatched[1].params, <<"cmd">>) = PyStr(<<"create_transaction">>)

\* C6: create_transaction and get_callback_address on a client with a
\* non-empty callback URL dispatch ipn_url = that URL; every other call of a
\* wrapper dispatches the caller's ipn_url as it was passed, and none when
\* the caller passed none.
C6_CallbackUrlInjection ==
    IsOperationCall =>
        dict_get(last.dispatched[1].params, <<"ipn_url">>)
            = IF ReplacesIpnUrl THEN PyStr(client.ipn_url)
              ELSE dict_get(CallerDict, <<"ipn_url">>)

C6_Witness ==
    /\ IsOperationCall
    /\ last.op = "get_callback_address"
    /\ client.ipn_url # <<>>
    /\ HasKey(CallerDict, <<"ipn_url">>)
    /\ dict_get(CallerDict, <<"ipn_url">>) # PyStr(client.ipn_url)
    /\ dict_get(last.dispatched[1].params, <<"ipn_url">>) = PyStr(client.ipn_url)

\* the values the gateway's two JSON bodies stand for
ParsedOk ==
    PyDict(<<Entry(<<"error">>, PyStr(<<"ok">>)),
             Entry(<<"result">>, PyDict(<<Entry(<<"status">>, PyInt(0))>>))>>)

ParsedError ==
    PyDict(<<Entry(<<"error">>, PyStr(<<"Invalid", " ", "command">>)),
             Entry(<<"result">>, PyDict(<<>>))>>)

\* C7: a call whose request reached the gateway returns the parsed JSON body,
\* for the 200 response and for the response with an HTTP error status alike.
C7_JsonBodyIsReturned ==
    (last.called /\ Len(last.sent) = 1) =>
        /\ gateway = OkResponse => last.result = Return(ParsedOk)
        /\ gateway = ErrorResponse => last.result = Return(ParsedError)

C7_Witness ==
    /\ last.called
    /\ gateway = ErrorResponse
    /\ Len(last.sent) = 1
    /\ last.result = Return(ParsedError)

\* C8: a call of request fails only when the transport obtained no response:
\* whatever the method value and whatever body was obtained, it returns a
\* parsed value, or raises URLError with no response obtained.
C8_OnlyTransportFailureIsFatal ==
    (last.called /\ last.op = "request" /\ IsRaise(last.result)) =>
        (gateway = NoConnection /\ last.result = Raise("URLError"))

\* the position of key k in the dict p
Pos(p, k) == CHOOSE i \in 1..Len(p) : p[i].k = k

RECURSIVE SplitAmp(_)
\* the pieces of an encoded text between its "&" separators
SplitAmp(t) ==
    IF t = <<>> THEN <<>>
    ELSE IF \E i \in 1..Len(t) : t[i] = "&"
         THEN LET i == CHOOSE n \in 1..Len(t) :
                           t[n] = "&" /\ \A m \in 1..(n - 1) : t[m] # "&"
              IN <<SubSeq(t, 1, i - 1)>> \o SplitAmp(SubSeq(t, i + 1, Len(t)))
    ELSE <<t>>

\* key=value as the form encoding writes one entry
Pair(e) == quote_plus(e.k) \o <<"=">> \o quote_plus(py_str(e.v))

\* the same entries as m in another order: two neighbours swapped, the whole
\* order reversed, or a caller's mapping of the same entries
Reorderings(m) ==
    ({ [i \in 1..Len(m) |-> IF i = j THEN m[j + 1] ELSE IF i = j + 1 THEN m[j] ELSE m[i]] :
           j \in 1..(Len(m) - 1) }
        \cup { [i \in 1..Len(m) |-> m[Len(m) + 1 - i]] }
        \cup { x \in CallerMappings :
                   Len(x) = Len(m) /\ \A i \in 1..Len(x) : \E j \in 1..Len(m) : m[j] = x[i] })
        \ {m}

\* the encoding lists the entries of the signed mapping in its order, and the
\* same entries in another order have another encoding and another signature
OrderPreservedAndSignificant ==
    (last.called /\ Len(last.sent) = 1 /\ last.sent[1].data # None) =>
        LET m == last.dispatched[1].params
            encoded == last.sent[1].data.str
            sig == dict_get(last.sent[1].headers, <<"Hmac">>)
        IN /\ Len(SplitAmp(encoded)) = Len(m)
           /\ \A i \in 1..Len(m) : SplitAmp(encoded)[i] = Pair(m[i])
           /\ calculate_hmac(client.private_key, m) = Return(sig)
           /\ \A x \in Reorderings(m) :
                  /\ urlencode(x) # encoded
                  /\ calculate_hmac(client.private_key, x) # Return(sig)

\* C9 as claimed: the encoding keeps the mapping's order, another order of
\* the same entries gives another encoding and signature, and the dispatched
\* mapping holds the caller's parameters first, then key, version and format
\* in that order.
C9_InjectedFieldsFollowCallerParameters ==
    /\ OrderPreservedAndSignificant
    /\ IsOperationCall =>
           LET p == last.dispatched[1].params
           IN /\ Pos(p, <<"key">>) < Pos(p, <<"version">>)
              /\ Pos(p, <<"version">>) < Pos(p, <<"format">>)
              /\ \A i \in 1..Len(CallerDict) :
                     CallerDict[i].k \notin {<<"key">>, <<"version">>, <<"format">>}
                         => Pos(p, CallerDict[i].k) < Pos(p, <<"key">>)

\* the names a wrapper injects, in the order it injects them
InjectionOrder ==
    IF ReplacesIpnUrl
    THEN <<<<"key">>, <<"version">>, <<"format">>, <<"ipn_url">>, <<"cmd">>>>
    ELSE <<<<"key">>, <<"version">>, <<"format">>, <<"cmd">>>>

\* C9 amended: the encoding keeps the mapping's order, another order of the
\* same entries gives another encoding and signature, and in the dispatched
\* mapping every entry of the caller's mapping keeps the position it had
\* there, the injected ones too; the injected names the caller's mapping did
\* not hold follow, in the order key, version, format, ipn_url, cmd.
C9_InjectedFieldsKeepCallerPositions ==
    /\ OrderPreservedAndSignificant
    /\ IsOperationCall =>
           LET p == last.dispatched[1].params
               c == CallerDict
               added == SelectSeq(InjectionOrder, LAMBDA k : ~HasKey(c, k))
           IN /\ Len(p) = Len(c) + Len(added)
              /\ \A i \in 1..Len(c) : p[i].k = c[i].k
              /\ \A i \in 1..Len(added) : p[Len(c) + i].k = added[i]

C9_Witness ==
    /\ IsOperationCall
    /\ last.arg = "fresh"
    /\ Len(last.sent) = 1
    /\ Len(CallerDict) > 1
    /\ CallerDict[1].k = <<"version">>
    /\ last.dispatched[1].params[1] = Entry(<<"version">>, PyInt(1))
    /\ Reorderings(last.dispatched[1].params) # {}

\* C10: a wrapper called again with the same input, be it an equal mapping
\* built anew or the very mapping object of the first call, hands urlopen the
\* same requests as the first call did: the same body bytes under the same
\* Hmac signature.
C10_RepeatedCallSendsSameBytes ==
    [][(last'.called /\ last'.n = last.n + 1 /\ last'.repeat)
           => last'.sent = last.sent]_vars

C10_Witness ==
    /\ IsOperationCall
    /\ last.repeat
    /\ last.arg = "same"
    /\ Len(last.sent) = 1

(* ---------------------------------------------------------------------- *)
(* Concurrent use of one client as section 5 states it                     *)
(* ---------------------------------------------------------------------- *)
Returned(t) == threads[t].pc = "done"

\* the requests the call of thread t sends when no other call is under way:
\* those of the whole wrapper, or of request, applied to the mapping the
\* thread passed as it was at the call
SentAlone(t) ==
    LET th == threads[t]
    IN IF th.op \in Operations
       THEN LET c == Invoke(th.op, client, th.before)[1]
            IN request(client, c.request_method, c.params, gateway).sent
       ELSE IF th.op = "request"
       THEN request(client, th.dispatched[1].request_method, th.before.dict, gateway).sent
       ELSE <<>>

\* C11 as claimed: no step of any call by any thread changes a field of the
\* client, and every call that has returned or raised, whatever the other
\* thread was doing meanwhile, has sent the requests it sends when it runs
\* alone.
C11_ConcurrentCallsSendAsAlone ==
    /\ [][client' = client]_vars
    /\ [](\A t \in Threads : Returned(t) => threads[t].sent = SentAlone(t))

(* ---------------------------------------------------------------------- *)
(* The caller's mapping after a wrapper call                               *)
(* ---------------------------------------------------------------------- *)
\* thread t has been returned from a wrapper it passed a mapping to
PassedMapping(t) ==
    Returned(t) /\ threads[t].op \in Operations /\ threads[t].ref # "none"

\* no call has updated the mapping of thread t during its call or since:
\* every other thread is idle, uses another mapping, only read this one, or
\* made its call on it before the call of t
Undisturbed(t) ==
    /\ ~threads[t].overlap
    /\ \A u \in Threads \ {t} :
           \/ threads[u].pc = "idle"
           \/ ObjectOf(u) # ObjectOf(t)
           \/ Returned(u) /\ threads[u].op \notin Operations
           \/ Returned(u) /\ threads[t].before = threads[u].after

\* the mapping the caller holds is the dispatched one and has the injected
\* entries
HoldsDispatchedMapping(t) ==
    LET m == heap[ObjectOf(t)]
    IN /\ m = threads[t].dispatched[1].params
       /\ dict_get(m, <<"key">>) = PyStr(client.public_key)
       /\ dict_get(m, <<"version">>) = PyInt(1)
       /\ dict_get(m, <<"format">>) = PyStr(<<"json">>)
       /\ dict_get(m, <<"cmd">>) = PyStr(<<CommandName[threads[t].op]>>)
       /\ (threads[t].op \in CallbackOperations /\ client.ipn_url # <<>>)
              => dict_get(m, <<"ipn_url">>) = PyStr(client.ipn_url)

\* the entries the mapping had at the call are, by name, where they were
KeepsPositions(t) ==
    LET b == threads[t].before.dict
        p == threads[t].dispatched[1].params
    IN /\ Len(b) <= Len(p)
       /\ \A i \in 1..Len(b) : p[i].k = b[i].k

\* the mapping comes from a call of another operation that injected no
\* ipn_url, and this call injects one
ReusedForCallback(t) ==
    /\ PassedMapping(t)
    /\ ~threads[t].overlap
    /\ threads[t].op \in CallbackOperations
    /\ client.ipn_url # <<>>
    /\ HasKey(threads[t].before.dict, <<"cmd">>)
    /\ ~HasKey(threads[t].before.dict, <<"ipn_url">>)

\* what the call of thread t sends for a new mapping of the entries that are
\* the caller's own
SentForFreshMapping(t) ==
    LET own == SelectSeq(threads[t].before.dict,
                         LAMBDA e : e.k \notin InjectedNames \cup {<<"ipn_url">>})
        c == Invoke(threads[t].op, client, PyDict(own))[1]
    IN [params |-> c.params,
        sent |-> request(client, c.request_method, c.params, gateway).sent]

\* an update of a dict leaves every entry it had at its position
UpdatesKeepPositions ==
    \A o \in Objects :
        /\ Len(heap[o]) <= Len(heap'[o])
        /\ \A i \in 1..Len(heap[o]) : heap'[o][i].k = heap[o][i].k

====
